---- MODULE Spec2Model ----
(***************************************************************************)
(* A model of the RSNA-2024 keypoint datasets                              *)
(* (stage1/moyashii/sagittal/source/datasets/rsna2024_keypoint_dataset.py) *)
(* and of the stage-2 loss suite (stage2/suguuuuu/source/models/utils/     *)
(* loss.py).  Each component has a record variable holding the fields and  *)
(* locals of the code it models, and a specification of its own; the       *)
(* components a specification does not use stay Idle.                      *)
(***************************************************************************)
EXTENDS Integers, Sequences, FiniteSets, TLC

VARIABLES
    sel,    \* one call of RSNA2024KeypointDatasetTrainV2._select_n_elements
    v2,     \* RSNA2024KeypointDatasetTrainV2: construction and __getitem__ up to loading
    draw,   \* a heatmap and the draw_gaussian calls made on it
    rad,    \* one call of gaussian_radius
    item,   \* __getitem__ of either dataset from the transform to the returned tuple
    focal,  \* a FocalLoss and one forward call
    loss,   \* an RSNA2024Loss and one forward call
    ctor    \* the ce_loss mappings and the RSNA2024Loss constructions made from them

vars == <<sel, v2, draw, rad, item, focal, loss, ctor>>

Idle == [pc |-> "idle"]

\* What each component leaves alone, and the rest at rest.
SelFrame == UNCHANGED <<v2, draw, rad, item, focal, loss, ctor>>
SelAlone == v2 = Idle /\ draw = Idle /\ rad = Idle /\ item = Idle /\ focal = Idle /\ loss = Idle /\ ctor = Idle

V2Frame == UNCHANGED <<sel, draw, rad, item, focal, loss, ctor>>
V2Alone == sel = Idle /\ draw = Idle /\ rad = Idle /\ item = Idle /\ focal = Idle /\ loss = Idle /\ ctor = Idle

DrawFrame == UNCHANGED <<sel, v2, rad, item, focal, loss, ctor>>
DrawAlone == sel = Idle /\ v2 = Idle /\ rad = Idle /\ item = Idle /\ focal = Idle /\ loss = Idle /\ ctor = Idle

RadFrame == UNCHANGED <<sel, v2, draw, item, focal, loss, ctor>>
RadAlone == sel = Idle /\ v2 = Idle /\ draw = Idle /\ item = Idle /\ focal = Idle /\ loss = Idle /\ ctor = Idle

ItemFrame == UNCHANGED <<sel, v2, draw, rad, focal, loss, ctor>>
ItemAlone == sel = Idle /\ v2 = Idle /\ draw = Idle /\ rad = Idle /\ focal = Idle /\ loss = Idle /\ ctor = Idle

FocalFrame == UNCHANGED <<sel, v2, draw, rad, item, loss, ctor>>
FocalAlone == sel = Idle /\ v2 = Idle /\ draw = Idle /\ rad = Idle /\ item = Idle /\ loss = Idle /\ ctor = Idle

LossFrame == UNCHANGED <<sel, v2, draw, rad, item, focal, ctor>>
LossAlone == sel = Idle /\ v2 = Idle /\ draw = Idle /\ rad = Idle /\ item = Idle /\ focal = Idle /\ ctor = Idle

CtorFrame == UNCHANGED <<sel, v2, draw, rad, item, focal, loss>>
CtorAlone == sel = Idle /\ v2 = Idle /\ draw = Idle /\ rad = Idle /\ item = Idle /\ focal = Idle /\ loss = Idle

(***************************************************************************)
(* Arithmetic of the host language                                         *)
(***************************************************************************)

Abs(a) == IF a < 0 THEN -a ELSE a

Min(a, b) == IF a <= b THEN a ELSE b

Max(a, b) == IF a >= b THEN a ELSE b

\* Python's a // b for b > 0: the floor of the quotient.
FloorDiv(a, b) == a \div b

\* A float cast to int (ndarray.astype(int), int(x)): the quotient num/den,
\* den > 0, truncated toward zero.
TruncDiv(num, den) == IF num >= 0 THEN num \div den ELSE -((-num) \div den)

\* np.clip(v, lo, hi) on one element: minimum(maximum(v, lo), hi).
Clip(v, lo, hi) == Min(Max(v, lo), hi)

(***************************************************************************)
(* RSNA2024KeypointDatasetTrainV2._select_n_elements                       *)
(***************************************************************************)

MaxLen == 5      \* longest slice list
MaxN == 5        \* largest window size n

SliceIds == {"p", "q"}

\* np.linspace(start, stop, num).astype(int), 0-based positions 0..num-1:
\* element k is start + k * (stop - start) / (num - 1), the single element of
\* num = 1 is start; the cast truncates toward zero.
LinspaceInt(start, stop, num) ==
    [k \in 0..(num - 1) |->
        IF num = 1 THEN start
        ELSE TruncDiv(start * (num - 1) + k * (stop - start), num - 1)]

\* np.clip(indices, 0, length - 1)
ClipIndicesUpperOpen(indices, length) ==
    [k \in DOMAIN indices |-> Clip(indices[k], 0, length)]

ClipIndices(indices, length) ==
    [k \in DOMAIN indices |-> Clip(indices[k], 0, length - 1)]

\* The indices _select_n_elements reads: offset = n // 2, the linspace from
\* base_index - offset to base_index + offset, clipped.
SelectIndices(length, n, base_index) ==
    LET offset == FloorDiv(n, 2)
        indices == LinspaceInt(base_index - offset, base_index + offset, n)
    IN  ClipIndices(indices, length)

\* lst[indices] of a one-dimensional array (lst a 1-based sequence here):
\* a negative index counts from the end, an index outside [-len, len) raises.
IndexInRange(i, length) == -length <= i /\ i < length

TakeAt(lst, i) == IF i >= 0 THEN lst[i + 1] ELSE lst[Len(lst) + i + 1]

\* _select_n_elements as a whole: the selected indices and elements, or the
\* IndexError of lst[indices].
SelectNElements(lst, n, base_index) ==
    LET indices == SelectIndices(Len(lst), n, base_index)
    IN  IF \A k \in DOMAIN indices : IndexInRange(indices[k], Len(lst))
        THEN [outcome |-> "returned",
              indices |-> indices,
              result  |-> [k \in DOMAIN indices |-> TakeAt(lst, indices[k])]]
        ELSE [outcome |-> "IndexError", indices |-> indices, result |-> <<>>]

SeqsUpTo(S, m) == UNION {[1..k -> S] : k \in 0..m}

SelInit ==
    /\ sel \in [pc : {"call"},
                lst : SeqsUpTo(SliceIds, MaxLen),
                n : 1..MaxN,
                base_index : 0..(MaxLen - 1),
                ret : {<<>>}]
    /\ SelAlone

SelCall ==
    /\ sel.pc = "call"
    /\ sel' = [sel EXCEPT !.pc = "done",
                          !.ret = SelectNElements(sel.lst, sel.n, sel.base_index)]
    /\ SelFrame

SelNext == SelCall

SpecSelect == SelInit /\ [][SelNext]_vars

\* C1: for a list of length L >= 1, odd n and a base index b in [0, L-1],
\* _select_n_elements returns exactly n entries, the k-th being the list
\* element at index clamp(b - n//2 + k, 0, L-1); every index is in [0, L-1]
\* and the middle entry is the base slice.
C1_SelectClampedWindow ==
    (sel.pc = "done" /\ Len(sel.lst) >= 1 /\ sel.n % 2 = 1
        /\ sel.base_index <= Len(sel.lst) - 1)
    => LET L == Len(sel.lst)
           n == sel.n
           b == sel.base_index
       IN  /\ sel.ret.outcome = "returned"
           /\ DOMAIN sel.ret.result = 0..(n - 1)
           /\ \A k \in 0..(n - 1) :
                /\ sel.ret.indices[k] = Clip(b - (n \div 2) + k, 0, L - 1)
                /\ sel.ret.indices[k] \in 0..(L - 1)
                /\ sel.ret.result[k] = sel.lst[Clip(b - (n \div 2) + k, 0, L - 1) + 1]
           /\ sel.ret.indices[n \div 2] = b
           /\ sel.ret.result[n \div 2] = sel.lst[b + 1]
           /\ (n = 3 /\ L = 5 /\ b = 0
                 => sel.ret.indices = (0 :> 0 @@ 1 :> 0 @@ 2 :> 1))

\* A window that crosses the lower boundary of a five-element list: n = 3,
\* b = 0 has been selected, and the boundary slice is repeated.
C1_Witness ==
    /\ sel.pc = "done"
    /\ Len(sel.lst) = 5 /\ sel.n = 3 /\ sel.base_index = 0
    /\ sel.lst[1] # sel.lst[2]
    /\ sel.ret.outcome = "returned"
    /\ sel.ret.indices[0] = 0 /\ sel.ret.indices[1] = 0 /\ sel.ret.indices[2] = 1

(***************************************************************************)
(* RSNA2024KeypointDatasetTrainV2: __init__ and __getitem__ up to the      *)
(* loading of the selected slices                                          *)
(***************************************************************************)

MaxFiles == 4    \* most slice files in the series directory
MaxSlices == 5   \* largest num_slices given to the constructor

\* A slice file is "<prefix>_<digits>.png"; Digits are the decimal digits of
\* the instance token, most significant first.  Two files may parse to the
\* same instance number ("a_1.png", "a_01.png"), and the order of the names
\* is not the order of the numbers ("a_10.png" sorts before "a_2.png").
DigitStrings == {<<1>>, <<2>>, <<0, 1>>, <<1, 0>>, <<0, 2>>, <<1, 2>>}

SliceFiles == [prefix : {"a"}, digits : DigitStrings]

\* The instance numbers a row of the annotation table may carry.
InstanceNumbers == {0, 1, 2, 10}

\* The characters of a file name as code points: the prefix letter, '_',
\* the digits, '.', 'p', 'n', 'g'.
PrefixCode(p) == IF p = "a" THEN 97 ELSE 98

NameChars(f) ==
    <<PrefixCode(f.prefix), 95>>
        \o [i \in 1..Len(f.digits) |-> 48 + f.digits[i]]
        \o <<46, 112, 110, 103>>

\* str.__lt__: the first differing character decides, a proper prefix is less.
RECURSIVE StrLess(_, _)
StrLess(s, t) ==
    IF t = <<>> THEN FALSE
    ELSE IF s = <<>> THEN TRUE
    ELSE IF Head(s) # Head(t) THEN Head(s) < Head(t)
    ELSE StrLess(Tail(s), Tail(t))

PathLess(f, g) == StrLess(NameChars(f), NameChars(g))

\* sorted(image_dir.iterdir()): the directory's files in ascending name order.
RECURSIVE SortedPaths(_)
SortedPaths(files) ==
    IF files = {} THEN <<>>
    ELSE LET least == CHOOSE f \in files : \A g \in files \ {f} : PathLess(f, g)
         IN  <<least>> \o SortedPaths(files \ {least})

\* int(digits): the decimal value of a digit string.
RECURSIVE ParseInt(_)
ParseInt(digits) ==
    IF digits = <<>> THEN 0
    ELSE 10 * ParseInt(SubSeq(digits, 1, Len(digits) - 1)) + digits[Len(digits)]

\* int(image_path.stem.split('_')[1])
InstanceNumberOf(f) == ParseInt(f.digits)

\* The loop of lines 206-212: the 0-based position of the first path whose
\* instance number is the row's, -1 when there is none.
FindBaseIndexLast(image_paths, base_instance_number) ==
    LET hits == {i \in 1..Len(image_paths) :
                    InstanceNumberOf(image_paths[i]) = base_instance_number}
    IN  IF hits = {} THEN -1
        ELSE (CHOOSE i \in hits : \A j \in hits : i >= j) - 1

FindBaseIndex(image_paths, base_instance_number) ==
    LET hits == {i \in 1..Len(image_paths) :
                    InstanceNumberOf(image_paths[i]) = base_instance_number}
    IN  IF hits = {} THEN -1
        ELSE (CHOOSE i \in hits : \A j \in hits : i <= j) - 1

\* Lines 224-229: the base index the window is centred on.
ChooseBaseIndex(use_center, image_paths, base_index) ==
    IF use_center THEN FloorDiv(Len(image_paths), 2) ELSE base_index

V2Init ==
    /\ v2 \in [pc : {"new"},
               num_slices : 1..MaxSlices,
               use_center : BOOLEAN,
               instance_number : InstanceNumbers,
               dir : {{}},
               image_paths : {<<>>},
               base_index : {-1},
               selected : {<<>>},
               loaded : {<<>>},
               returned : {FALSE}]
    /\ V2Alone

\* __init__ (lines 149-176): an even num_slices is rejected.
V2Construct ==
    /\ v2.pc = "new"
    /\ v2' = [v2 EXCEPT !.pc = IF v2.num_slices % 2 = 0 THEN "ValueError" ELSE "ready"]
    /\ V2Frame

\* The series directory gains a slice file before the item is fetched.
V2AddFile ==
    /\ v2.pc = "ready"
    /\ Cardinality(v2.dir) < MaxFiles
    /\ \E f \in SliceFiles \ v2.dir : v2' = [v2 EXCEPT !.dir = v2.dir \cup {f}]
    /\ V2Frame

\* __getitem__, lines 201-213: list the directory, look for the row's
\* instance number, assert that it was found.
V2ResolveBase ==
    /\ v2.pc = "ready"
    /\ LET image_paths == SortedPaths(v2.dir)
           base_index == FindBaseIndex(image_paths, v2.instance_number)
       IN  v2' = [v2 EXCEPT !.image_paths = image_paths,
                            !.base_index = base_index,
                            !.pc = IF base_index # -1 THEN "resolved"
                                   ELSE "AssertionError"]
    /\ V2Frame

\* __getitem__, lines 224-232: choose the base index and select the window.
\* (The list is not empty here, so the selection cannot raise.)
V2Select ==
    /\ v2.pc = "resolved"
    /\ LET base_index == ChooseBaseIndex(v2.use_center, v2.image_paths, v2.base_index)
           r == SelectNElements(v2.image_paths, v2.num_slices, base_index)
       IN  v2' = [v2 EXCEPT !.base_index = base_index,
                            !.selected = r.result,
                            !.pc = IF r.outcome = "returned" THEN "selected"
                                   ELSE r.outcome]
    /\ V2Frame

\* __getitem__, lines 235-239: read every selected slice, in order.
V2Load ==
    /\ v2.pc = "selected"
    /\ v2' = [v2 EXCEPT !.loaded = [k \in DOMAIN v2.selected |-> v2.selected[k]],
                        !.pc = "loaded"]
    /\ V2Frame

\* __getitem__, lines 241-277: the keypoints, the heatmap and the returned
\* tuple (modelled in detail under SpecItem).
V2Return ==
    /\ v2.pc = "loaded"
    /\ v2' = [v2 EXCEPT !.returned = TRUE, !.pc = "returned"]
    /\ V2Frame

V2Next ==
    \/ V2Construct
    \/ V2AddFile
    \/ V2ResolveBase
    \/ V2Select
    \/ V2Load
    \/ V2Return

SpecV2 == V2Init /\ [][V2Next]_vars

V2Fetching == v2.pc \in {"AssertionError", "resolved", "selected", "loaded", "returned"}

V2HasMatch ==
    \E f \in v2.dir : InstanceNumberOf(f) = v2.instance_number

\* The 0-based position of file f in the sorted listing.
V2PositionOf(f) == Cardinality({g \in v2.dir : PathLess(g, f)})

\* C10: when no slice file of the series directory parses to the row's
\* instance number, __getitem__ of the multi-slice dataset stops with an
\* assertion error, in both indexing modes, with nothing selected, loaded or
\* returned; when one does, the fetch passes the assertion and the base
\* index is the first matching position of the sorted list (annotated mode)
\* or len(list) // 2 (center mode).
C10_MissingBaseAsserts ==
    V2Fetching =>
        /\ (~V2HasMatch =>
                /\ v2.pc = "AssertionError"
                /\ v2.selected = <<>> /\ v2.loaded = <<>> /\ ~v2.returned)
        /\ (V2HasMatch =>
                /\ v2.pc # "AssertionError"
                /\ (v2.pc = "resolved" \/ ~v2.use_center) =>
                      \E f \in v2.dir :
                          /\ InstanceNumberOf(f) = v2.instance_number
                          /\ \A g \in v2.dir :
                                InstanceNumberOf(g) = v2.instance_number
                                    => ~PathLess(g, f)
                          /\ v2.base_index = V2PositionOf(f)
                /\ (v2.pc # "resolved" /\ v2.use_center) =>
                      v2.base_index = Cardinality(v2.dir) \div 2)

\* The assertion has failed in center-of-series mode on a directory that
\* holds files, none of them the row's instance.
C10_Witness ==
    /\ v2.pc = "AssertionError"
    /\ v2.use_center
    /\ Cardinality(v2.dir) >= 2
    /\ ~V2HasMatch

(***************************************************************************)
(* gaussian2D and draw_gaussian                                            *)
(*                                                                         *)
(* Heatmap and kernel values are fixed-point numbers: the integer v stands *)
(* for v / Scale.  A center coordinate is a rational <<num, den>>.         *)
(***************************************************************************)

Scale == 10000

MaxDim == 3      \* largest heatmap height and width
MaxRadius == 2   \* largest Gaussian radius

\* Python's round() of num/den, den > 0: to the nearest integer, a tie to
\* the even one.
PyRound(num, den) ==
    LET q == num \div den
        r == num - q * den
    IN  IF 2 * r < den THEN q
        ELSE IF 2 * r > den THEN q + 1
        ELSE IF q % 2 = 0 THEN q ELSE q + 1

RECURSIVE Gcd(_, _)
Gcd(a, b) == IF b = 0 THEN a ELSE Gcd(b, a % b)

\* Scale * exp(num/den) for num >= 0, den > 0, by the exponential series
\* term(n) = term(n-1) * (num/den) / n, summed until the term vanishes.
RECURSIVE ExpSeries(_, _, _, _)
ExpSeries(term, n, num, den) ==
    IF term = 0 THEN 0
    ELSE term + ExpSeries((term * num) \div (den * n), n + 1, num, den)

ExpFix(num, den) == ExpSeries(Scale, 1, num, den)

\* One entry of gaussian2D((diameter, diameter), sigma) for sigma =
\* sigma_num / sigma_den at squared distance d2 from the kernel's center:
\* exp(-d2 / (2 sigma^2)), and 0 where that is below finfo.eps * h.max(),
\* that is where d2 / (2 sigma^2) > -ln(2^-52) = 36.0437 (h.max() is the
\* center's 1).
GaussianEntry(d2, sigma_num, sigma_den) ==
    LET num == d2 * sigma_den * sigma_den
        den == 2 * sigma_num * sigma_num
        g == Gcd(num, den)
    IN  IF num * 10000 > 360437 * den THEN 0
        ELSE (Scale * Scale) \div ExpFix(num \div g, den \div g)

\* The kernel draw_gaussian builds for each radius: diameter = 2 * radius + 1,
\* sigma = diameter / 6, indexed by the squared distance from the center.
GaussianTable ==
    [radius \in 0..(MaxRadius + 1) |->
        [d2 \in 0..(2 * radius * radius) |->
            GaussianEntry(d2, 2 * radius + 1, 6)]]

\* gaussian[i, j] of the kernel of the given radius, 0 <= i, j <= 2 * radius.
GaussianAt(radius, i, j) ==
    GaussianTable[radius][(i - radius) * (i - radius) + (j - radius) * (j - radius)]

\* The positions a[start:stop] takes from an axis of the given length, as
\* <<first, end>> (end exclusive, end <= first when empty): a negative bound
\* counts from the end, and both are clamped into [0, length].
SliceBound(b, length) == IF b < 0 THEN Max(b + length, 0) ELSE Min(b, length)

PySlice(start, stop, length) == <<SliceBound(start, length), SliceBound(stop, length)>>

SliceLen(s) == Max(s[2] - s[1], 0)

NewHeatmap(height, width, value) ==
    [height |-> height, width |-> width,
     at |-> [p \in (0..(height - 1)) \X (0..(width - 1)) |-> value]]

\* np.maximum(masked_heatmap, masked_gaussian * k, out=masked_heatmap) on one
\* cell.
CombineAdd(old, stamp) == old + stamp

Combine(old, stamp) == Max(old, stamp)

\* left, right = min(x, radius), min(width - x, radius + 1)
ClipExtentUnclipped(x, size, radius) == <<radius, Min(size - x, radius + 1)>>

ClipExtent(x, size, radius) == <<Min(x, radius), Min(size - x, radius + 1)>>

\* draw_gaussian(heatmap, center, radius, k): the heatmap afterwards, whether
\* the guarded write ran, the shapes of the two masked regions, and
\* "ValueError" when np.maximum cannot broadcast the kernel region into the
\* heatmap region.
DrawGaussian(heatmap, center, radius, k) ==
    LET diameter == 2 * radius + 1
        x == PyRound(center[1][1], center[1][2])
        y == PyRound(center[2][1], center[2][2])
        height == heatmap.height
        width == heatmap.width
        lr == ClipExtent(x, width, radius)
        tb == ClipExtent(y, height, radius)
        left == lr[1]
        right == lr[2]
        top == tb[1]
        bottom == tb[2]
        hrows == PySlice(y - top, y + bottom, height)
        hcols == PySlice(x - left, x + right, width)
        grows == PySlice(radius - top, radius + bottom, diameter)
        gcols == PySlice(radius - left, radius + right, diameter)
        hshape == <<SliceLen(hrows), SliceLen(hcols)>>
        gshape == <<SliceLen(grows), SliceLen(gcols)>>
        guard == Min(gshape[1], gshape[2]) > 0 /\ Min(hshape[1], hshape[2]) > 0
        fits == \A d \in 1..2 : gshape[d] = hshape[d] \/ gshape[d] = 1
        stamp(i, j) ==
            k * GaussianAt(radius,
                           IF gshape[1] = 1 THEN grows[1] ELSE grows[1] + (i - hrows[1]),
                           IF gshape[2] = 1 THEN gcols[1] ELSE gcols[1] + (j - hcols[1]))
        inside(i, j) ==
            /\ hrows[1] <= i /\ i < hrows[2]
            /\ hcols[1] <= j /\ j < hcols[2]
    IN  IF ~guard
        THEN [outcome |-> "returned", wrote |-> FALSE, hshape |-> hshape,
              gshape |-> gshape, heatmap |-> heatmap]
        ELSE IF ~fits
        THEN [outcome |-> "ValueError", wrote |-> FALSE, hshape |-> hshape,
              gshape |-> gshape, heatmap |-> heatmap]
        ELSE [outcome |-> "returned", wrote |-> TRUE, hshape |-> hshape,
              gshape |-> gshape,
              heatmap |-> [heatmap EXCEPT !.at =
                  [p \in DOMAIN heatmap.at |->
                      IF inside(p[1], p[2])
                      THEN Combine(heatmap.at[p], stamp(p[1], p[2]))
                      ELSE heatmap.at[p]]]]

\* The heatmaps a draw may start from: all zero, all one half, and a ramp of
\* distinct values from 0 up to below 1.
InitialHeatmaps(height, width) ==
    {NewHeatmap(height, width, 0),
     NewHeatmap(height, width, Scale \div 2),
     [NewHeatmap(height, width, 0) EXCEPT !.at =
        [p \in (0..(height - 1)) \X (0..(width - 1)) |->
            ((p[1] * width + p[2]) * Scale) \div (height * width)]]}

Amplitudes == {-1, 1, 2}

\* Center coordinates in halves, from two cells beyond the reach of the
\* kernel on one side of the axis to two cells beyond it on the other.
CenterCoords(size, radius) ==
    {<<c2, 2>> : c2 \in (-2 * (radius + 2))..(2 * (size + radius + 2))}

DrawInit ==
    /\ \E height \in 1..MaxDim, width \in 1..MaxDim :
         \E h \in InitialHeatmaps(height, width) :
            draw = [pc |-> "ready", before |-> h, heatmap |-> h, once |-> h,
                    center |-> <<>>, radius |-> 0, k |-> 1,
                    call |-> <<>>]
    /\ DrawAlone

\* A first draw_gaussian call on the heatmap.
DrawCall ==
    /\ draw.pc = "ready"
    /\ \E radius \in 0..MaxRadius, k \in Amplitudes :
         \E cx \in CenterCoords(draw.heatmap.width, radius),
            cy \in CenterCoords(draw.heatmap.height, radius) :
            LET r == DrawGaussian(draw.heatmap, <<cx, cy>>, radius, k)
            IN  draw' = [draw EXCEPT !.pc = IF r.outcome = "returned" THEN "drawn"
                                            ELSE r.outcome,
                                     !.center = <<cx, cy>>,
                                     !.radius = radius,
                                     !.k = k,
                                     !.call = [wrote |-> r.wrote, hshape |-> r.hshape,
                                               gshape |-> r.gshape],
                                     !.heatmap = r.heatmap,
                                     !.once = r.heatmap]
    /\ DrawFrame

\* The same call made again on the result.
DrawAgain ==
    /\ draw.pc = "drawn"
    /\ LET r == DrawGaussian(draw.heatmap, draw.center, draw.radius, draw.k)
       IN  draw' = [draw EXCEPT !.pc = IF r.outcome = "returned" THEN "redrawn"
                                       ELSE r.outcome,
                                !.heatmap = r.heatmap]
    /\ DrawFrame

DrawNext == DrawCall \/ DrawAgain

SpecDraw == DrawInit /\ [][DrawNext]_vars

DrawX == PyRound(draw.center[1][1], draw.center[1][2])
DrawY == PyRound(draw.center[2][1], draw.center[2][2])

DrawCalled == draw.pc \notin {"idle", "ready"}

\* C2: for every canvas, radius >= 0 and center (inside, on the edge or
\* outside on either side of either axis) draw_gaussian raises nothing; when
\* it writes, the clipped kernel region and the clipped heatmap region have
\* the same shape; a cell changes only if it lies within radius of the
\* rounded center on both axes; and when the clipped region is empty on
\* either axis the heatmap is unchanged.
C2_DrawClipsSafely ==
    DrawCalled =>
        /\ draw.pc \in {"drawn", "redrawn"}
        /\ draw.call.wrote => draw.call.hshape = draw.call.gshape
        /\ \A p \in DOMAIN draw.before.at :
              draw.once.at[p] # draw.before.at[p] =>
                  /\ Abs(p[1] - DrawY) <= draw.radius
                  /\ Abs(p[2] - DrawX) <= draw.radius
        /\ DOMAIN draw.once.at = DOMAIN draw.before.at
        /\ (\E d \in 1..2 : draw.call.hshape[d] = 0 \/ draw.call.gshape[d] = 0)
              => draw.once = draw.before

\* A draw centred on the corner cell (0, 0) of a zero canvas with radius 2
\* has written exactly the quadrant of the kernel that lies on the canvas.
C2_Witness ==
    /\ draw.pc = "drawn"
    /\ draw.radius = 2 /\ draw.k = 1
    /\ DrawX = 0 /\ DrawY = 0
    /\ draw.before = NewHeatmap(3, 3, 0)
    /\ draw.call.wrote
    /\ draw.call.hshape = <<3, 3>>
    /\ draw.once.at[<<0, 0>>] = Scale
    /\ \A p \in DOMAIN draw.once.at : draw.once.at[p] > 0

\* C6: draw_gaussian is idempotent: a second application with the same
\* center, radius and amplitude leaves the heatmap as the first one left it.
C6_DrawIdempotent ==
    draw.pc = "redrawn" => draw.heatmap = draw.once

\* The call was repeated on a ramp heatmap that the first application had
\* changed in some cells and left alone in others.
C6_Witness ==
    /\ draw.pc = "redrawn"
    /\ draw.call.wrote
    /\ \E p, q \in DOMAIN draw.before.at :
          /\ draw.once.at[p] # draw.before.at[p]
          /\ draw.once.at[q] = draw.before.at[q]
          /\ draw.before.at[q] > 0
          /\ Abs(q[1] - DrawY) <= draw.radius /\ Abs(q[2] - DrawX) <= draw.radius

(***************************************************************************)
(* gaussian_radius                                                         *)
(*                                                                         *)
(* A radius is a fixed-point number: the integer R stands for R / RUnit.   *)
(* min_overlap is a rational <<num, den>> with 0 < num < den.              *)
(***************************************************************************)

RUnit == 100

MaxSide == 6     \* largest side of the footprint

\* The largest x in lo..hi with x * x <= n (lo * lo <= n).
RECURSIVE IsqrtBetween(_, _, _)
IsqrtBetween(n, lo, hi) ==
    IF lo >= hi THEN lo
    ELSE LET mid == (lo + hi + 1) \div 2
         IN  IF mid * mid <= n THEN IsqrtBetween(n, mid, hi)
             ELSE IsqrtBetween(n, lo, mid - 1)

\* np.sqrt of num/den >= 0 in radius units: floor(RUnit * sqrt(num / den)).
SqrtFix(num, den) == IsqrtBetween((num * RUnit * RUnit) \div den, 0, 46340)

\* gaussian_radius(det_size, min_overlap), lines 27-47, in radius units.
\*   b1 = h + w,            c1 = w h (1 - o) / (1 + o),  r1 = (b1 + sq1) / 2
\*   b2 = 2 (h + w),        c2 = (1 - o) w h,  a2 = 4,   r2 = (b2 + sq2) / 2
\*   b3 = -2 o (h + w),     c3 = (o - 1) w h,  a3 = 4 o, r3 = (b3 + sq3) / 2
\* with sq = sqrt(b^2 - 4 a c) each time.
GaussianRadius(height, width, min_overlap) ==
    LET num == min_overlap[1]
        den == min_overlap[2]
        b1  == height + width
        sq1 == SqrtFix(b1 * b1 * (den + num) - 4 * width * height * (den - num),
                       den + num)
        r1  == (b1 * RUnit + sq1) \div 2
        b2  == 2 * (height + width)
        sq2 == SqrtFix(b2 * b2 * den - 16 * (den - num) * width * height, den)
        r2  == (b2 * RUnit + sq2) \div 2
        b3  == (-2 * num * (height + width) * RUnit) \div den
        sq3 == SqrtFix(4 * num * num * (height + width) * (height + width)
                            + 16 * num * (den - num) * width * height,
                       den * den)
        r3  == (b3 + sq3) \div 2
    IN  Min(r1, Min(r2, r3))

OverlapChoices == {<<1, 10>>, <<3, 10>>, <<1, 2>>, <<7, 10>>, <<9, 10>>}

RadInit ==
    /\ rad \in [pc : {"call"},
                height : 1..MaxSide,
                width : 1..MaxSide,
                min_overlap : OverlapChoices,
                radius : {0}]
    /\ RadAlone

RadCall ==
    /\ rad.pc = "call"
    /\ rad' = [rad EXCEPT !.pc = "done",
                          !.radius = GaussianRadius(rad.height, rad.width, rad.min_overlap)]
    /\ RadFrame

RadNext == RadCall

SpecRadius == RadInit /\ [][RadNext]_vars

\* The IoU of the ground-truth box h x w with a detection box whose corners
\* are displaced by the radius R, as <<intersection, union>> in squared
\* radius units: both corners outward (the detection encloses the truth),
\* both inward (the truth encloses the detection), one in and one out (the
\* detection is the truth shifted by R on both axes).
Pos(a) == IF a > 0 THEN a ELSE 0

IoUOutward(h, w, R) ==
    <<h * w * RUnit * RUnit, (h * RUnit + 2 * R) * (w * RUnit + 2 * R)>>

IoUInward(h, w, R) ==
    <<Pos(h * RUnit - 2 * R) * Pos(w * RUnit - 2 * R), h * w * RUnit * RUnit>>

IoUShifted(h, w, R) ==
    LET inter == Pos(h * RUnit - R) * Pos(w * RUnit - R)
    IN  <<inter, 2 * h * w * RUnit * RUnit - inter>>

\* intersection / union >= num / den
IoUAtLeast(iou, min_overlap) == iou[1] * min_overlap[2] >= min_overlap[1] * iou[2]

\* C5: for every footprint with positive sides and every min_overlap in
\* (0, 1), a detection box displaced by the radius gaussian_radius returns
\* still has IoU >= min_overlap with the ground-truth box, in each of the
\* three placement cases.
C5_RadiusKeepsOverlap ==
    rad.pc = "done" =>
        /\ IoUAtLeast(IoUOutward(rad.height, rad.width, rad.radius), rad.min_overlap)
        /\ IoUAtLeast(IoUInward(rad.height, rad.width, rad.radius), rad.min_overlap)
        /\ IoUAtLeast(IoUShifted(rad.height, rad.width, rad.radius), rad.min_overlap)

(***************************************************************************)
(* __getitem__ of RSNA2024KeypointDatasetTrainV1 / V2, from the keypoints  *)
(* of the row to the returned heatmap and keypoint array                   *)
(*                                                                         *)
(* A keypoint is a pair of rationals <<<<xnum, xden>>, <<ynum, yden>>>> in *)
(* lowest terms; a class label is the index self._labels gives it.         *)
(***************************************************************************)

NumLevels == 5          \* len(self._labels)
CanonicalSize == 512    \* _read_image's image_size

Levels == 0..(NumLevels - 1)

\* A rational in lowest terms with a positive denominator.
Rat(num, den) ==
    LET g == Gcd(Abs(num), den)
    IN  <<num \div g, den \div g>>

Point(x, y) == <<Rat(x, 1), Rat(y, 1)>>

\* The entry ret_keypoints starts with: (-1.0, -1.0).
Sentinel == Point(-1, -1)

\* heatmap_size of the constructor, and the overlap gaussian_radius defaults to.
HeatmapSizes == {<<20, 20>>}
DefaultMinOverlap == <<7, 10>>

\* Shapes (height, width) of the image the transform returns or, in V1, of
\* the image as read.
ImageShapes == {<<40, 40>>, <<6, 10>>}

\* Line 119: (round(target_row[seg_x]), round(target_row[seg_y])) for row
\* values in halves.
V1RowValues == {<<<<20, 1>>, <<20, 1>>>>, <<<<13, 2>>, <<5, 1>>>>}

V1Keypoint(v) == Point(PyRound(v[1][1], v[1][2]), PyRound(v[2][1], v[2][2]))

\* Lines 221 and 246: (nx * w, ny * h) for the normalized row values.
V2RowValues == {<<<<1, 2>>, <<1, 2>>>>, <<<<1, 8>>, <<3, 4>>>>}

V2Keypoint(v, shape) ==
    <<Rat(v[1][1] * shape[2], v[1][2]), Rat(v[2][1] * shape[1], v[2][2])>>

\* The keypoints a transform may return for a level it keeps: in the middle
\* of the larger image, off the canvas at (-1, -1), and near the right edge.
TransformedPoints == {Point(20, 20), Point(-1, -1), <<<<38, 1>>, <<13, 2>>>>}

\* The dataset and the row, at the call of the transform (lines 122, 250).
ItemConfigs ==
    [variant : {"V1"}, has_transform : BOOLEAN, stride : {2, 4},
     heatmap_size : HeatmapSizes, image : ImageShapes]
    \cup
    [variant : {"V2"}, has_transform : {TRUE}, stride : {2, 4},
     heatmap_size : HeatmapSizes, image : {<<CanonicalSize, CanonicalSize>>}]
    \cup
    [variant : {"V2"}, has_transform : {FALSE}, stride : {64},
     heatmap_size : HeatmapSizes, image : {<<CanonicalSize, CanonicalSize>>}]

AllLabels == [i \in 1..NumLevels |-> i - 1]

\* The rows of the annotation table: every level at the same one of the
\* values, or the levels alternating between two of them.
RowsOf(values) ==
    {[i \in 1..NumLevels |-> IF i % 2 = 1 THEN a ELSE b] : a \in values, b \in values}

ItemInit ==
    /\ \E cfg \in ItemConfigs :
         \E rows \in RowsOf(IF cfg.variant = "V1" THEN V1RowValues ELSE V2RowValues) :
            item = [pc |-> "read",
                    cfg |-> cfg,
                    image |-> cfg.image,
                    keypoints |->
                        [i \in 1..NumLevels |->
                            IF cfg.variant = "V1" THEN V1Keypoint(rows[i])
                            ELSE V2Keypoint(rows[i], cfg.image)],
                    class_labels |-> AllLabels,
                    radius |-> 0,
                    heatmap |-> <<>>,
                    ret_keypoints |-> <<>>]
    /\ ItemAlone

\* The subsequence of the labels a transform keeps.
RECURSIVE KeptLabels(_, _)
KeptLabels(labels, keep) ==
    IF labels = <<>> THEN <<>>
    ELSE (IF Head(labels) \in keep THEN <<Head(labels)>> ELSE <<>>)
            \o KeptLabels(Tail(labels), keep)

\* Lines 122-126 and 250-254: the transform returns an image, and for any
\* subset of the levels a keypoint each, in the order given.
ItemTransform ==
    /\ item.pc = "read"
    /\ item.cfg.has_transform
    /\ \E shape \in ImageShapes, keep \in SUBSET Levels :
         \E pts \in [1..Cardinality(keep) -> TransformedPoints] :
            item' = [item EXCEPT !.pc = "transformed",
                                 !.image = shape,
                                 !.keypoints = pts,
                                 !.class_labels = KeptLabels(AllLabels, keep)]
    /\ ItemFrame

\* Lines 134-135: kpt_x = keypoint[0] / stride, kpt_y = keypoint[1] / stride.
DownsampledCenterNoStride(keypoint, stride) == keypoint

DownsampledCenter(keypoint, stride) ==
    <<Rat(keypoint[1][1], keypoint[1][2] * stride),
      Rat(keypoint[2][1], keypoint[2][2] * stride)>>

\* Lines 130-131: max(0, int(gaussian_radius([s // stride for s in heatmap_size])))
ItemRadius(heatmap_size, stride) ==
    Max(0, TruncDiv(GaussianRadius(FloorDiv(heatmap_size[1], stride),
                                   FloorDiv(heatmap_size[2], stride),
                                   DefaultMinOverlap),
                    RUnit))

\* Lines 132-136: one draw_gaussian per returned keypoint, on the channel of
\* its label; "ValueError" once a draw raises.
RECURSIVE DrawAll(_, _, _, _, _)
DrawAll(heatmap, keypoints, class_labels, stride, radius) ==
    IF keypoints = <<>> \/ class_labels = <<>>
    THEN [outcome |-> "returned", heatmap |-> heatmap]
    ELSE LET index == Head(class_labels)
             r == DrawGaussian(heatmap[index + 1],
                               DownsampledCenter(Head(keypoints), stride), radius, 1)
         IN  IF r.outcome # "returned"
             THEN [outcome |-> r.outcome, heatmap |-> heatmap]
             ELSE DrawAll([heatmap EXCEPT ![index + 1] = r.heatmap],
                          Tail(keypoints), Tail(class_labels), stride, radius)

\* Lines 141-144: the sentinel everywhere, then each returned keypoint at
\* the index of its label.
RECURSIVE FillKeypoints(_, _, _)
FillKeypoints(ret_keypoints, keypoints, class_labels) ==
    IF keypoints = <<>> \/ class_labels = <<>> THEN ret_keypoints
    ELSE FillKeypoints([ret_keypoints EXCEPT ![Head(class_labels) + 1] = Head(keypoints)],
                       Tail(keypoints), Tail(class_labels))

\* Lines 128-145 and 256-277: the heatmap, the keypoint array, the return.
ItemEncode ==
    /\ \/ item.pc = "transformed"
       \/ item.pc = "read" /\ ~item.cfg.has_transform
    /\ LET h == item.image[1]
           w == item.image[2]
           stride == item.cfg.stride
           zeros == [i \in 1..NumLevels |->
                        NewHeatmap(FloorDiv(h, stride), FloorDiv(w, stride), 0)]
           radius == ItemRadius(item.cfg.heatmap_size, stride)
           drawn == DrawAll(zeros, item.keypoints, item.class_labels, stride, radius)
       IN  item' = [item EXCEPT
                      !.pc = drawn.outcome,
                      !.radius = radius,
                      !.heatmap = drawn.heatmap,
                      !.ret_keypoints =
                          FillKeypoints([i \in 1..NumLevels |-> Sentinel],
                                        item.keypoints, item.class_labels)]
    /\ ItemFrame

ItemNext == ItemTransform \/ ItemEncode

SpecItem == ItemInit /\ [][ItemNext]_vars

\* Whether level i is in the keypoints the heatmap is drawn from, and the
\* keypoint it has there.
ItemPresent(i) == \E j \in 1..Len(item.class_labels) : item.class_labels[j] = i

ItemKeypointOf(i) ==
    item.keypoints[CHOOSE j \in 1..Len(item.class_labels) : item.class_labels[j] = i]

\* The keypoint of level i divided by the stride and rounded, as <<y, x>>.
ItemCellOf(i) ==
    LET k == ItemKeypointOf(i)
    IN  <<PyRound(k[2][1], k[2][2] * item.cfg.stride),
          PyRound(k[1][1], k[1][2] * item.cfg.stride)>>

\* C3: in the returned heatmap the channel of a level absent from the
\* transform's output is entirely zero, and the channel of a present level
\* whose keypoint, divided by the stride and rounded, lies inside the
\* heatmap has maximum 1, attained at exactly that cell; a 40x40 image with
\* one keypoint at (20, 20) and stride 4 has its maximum at (5, 5).
C3_HeatmapPeaks ==
    item.pc = "returned" =>
        \A i \in Levels :
            LET channel == item.heatmap[i + 1]
            IN  /\ channel.height = item.image[1] \div item.cfg.stride
                /\ channel.width = item.image[2] \div item.cfg.stride
                /\ ~ItemPresent(i) => \A p \in DOMAIN channel.at : channel.at[p] = 0
                /\ (ItemPresent(i) /\ ItemCellOf(i) \in DOMAIN channel.at) =>
                      /\ channel.at[ItemCellOf(i)] = Scale
                      /\ \A p \in DOMAIN channel.at :
                            p # ItemCellOf(i) => channel.at[p] < Scale
                /\ (ItemPresent(i) /\ item.image = <<40, 40>> /\ item.cfg.stride = 4
                        /\ ItemKeypointOf(i) = Point(20, 20))
                      => ItemCellOf(i) = <<5, 5>> /\ channel.at[<<5, 5>>] = Scale

\* The transform returned a 40x40 image and kept a single level, at
\* (20, 20); with stride 4 its channel peaks at (5, 5) and nowhere else.
C3_Witness ==
    /\ item.pc = "returned"
    /\ item.cfg.has_transform
    /\ item.image = <<40, 40>> /\ item.cfg.stride = 4
    /\ item.class_labels = <<2>>
    /\ item.keypoints = <<Point(20, 20)>>
    /\ item.heatmap[3].at[<<5, 5>>] = Scale
    /\ item.heatmap[3].at[<<5, 6>>] > 0
    /\ item.heatmap[1] = NewHeatmap(10, 10, 0)

\* C4: the returned keypoint array has exactly 5 entries, and entry i is
\* the sentinel (-1, -1) if and only if level i is absent from the
\* transform's output.
C4_SentinelMeansAbsent ==
    item.pc = "returned" =>
        /\ DOMAIN item.ret_keypoints = 1..NumLevels
        /\ \A i \in Levels :
              item.ret_keypoints[i + 1] = Sentinel <=> ~ItemPresent(i)

(***************************************************************************)
(* FocalLoss and the weighted cross-entropy of torch.nn                    *)
(*                                                                         *)
(* Losses are exact rationals <<num, den>> in lowest terms, in units of    *)
(* ln 2.  A logit row gives each class an integer multiple of ln 2, and    *)
(* the rows used have a power of two as the sum of 2^logit, so that        *)
(* log_softmax is an integer and pt = exp(log_pt) is a power of 1/2.       *)
(***************************************************************************)

NumClasses == 3         \* the classes of the default weight [1.0, 2.0, 4.0]
IgnoreIndex == -100     \* ignore_index of FocalLoss and of nn.CrossEntropyLoss

MaxRows == 2     \* most rows (N * d1) of a FocalLoss input
MaxGamma == 2    \* largest focusing parameter gamma

Classes == 0..(NumClasses - 1)

RatAdd(a, b) == Rat(a[1] * b[2] + b[1] * a[2], a[2] * b[2])

RatMul(a, b) == Rat(a[1] * b[1], a[2] * b[2])

\* a / n for an integer n > 0
RatOver(a, n) == Rat(a[1], a[2] * n)

\* a / b for a rational b > 0
RatDiv(a, b) == Rat(a[1] * b[2], a[2] * b[1])

RECURSIVE RatSum(_)
RatSum(values) ==
    IF values = <<>> THEN <<0, 1>> ELSE RatAdd(Head(values), RatSum(Tail(values)))

RECURSIVE Pow(_, _)
Pow(b, e) == IF e = 0 THEN 1 ELSE b * Pow(b, e - 1)

RECURSIVE Log2Exact(_)
Log2Exact(n) == IF n <= 1 THEN 0 ELSE 1 + Log2Exact(n \div 2)

\* The logit rows: one class ahead of the other two by ln 2, which softmax
\* turns into probabilities 1/2, 1/4, 1/4.
LogitRows == {[c \in Classes |-> IF c = hot THEN 1 ELSE 0] : hot \in Classes}

RECURSIVE SumPow2(_, _)
SumPow2(row, c) == IF c < 0 THEN 0 ELSE Pow(2, row[c]) + SumPow2(row, c - 1)

\* F.log_softmax(x, dim=-1) of one row, in units of ln 2.
LogSoftmax(row) ==
    LET lse == Log2Exact(SumPow2(row, NumClasses - 1))
    IN  [c \in Classes |-> row[c] - lse]

\* The weight of class c: alpha[c], or 1 when alpha is None (<<>>).
ClassWeight(alpha, c) == IF alpha = <<>> THEN 1 ELSE alpha[c + 1]

\* nn.NLLLoss(weight=alpha, reduction='none') on one row with a target that
\* is not ignored: -alpha[y] * log_p[y].
NllRow(alpha, log_p, y) == Rat(-ClassWeight(alpha, y) * log_p[y], 1)

\* (1 - pt) ** gamma for pt = exp(log_pt) = 2 ^ log_pt, log_pt <= 0.
FocalTermLinear(log_pt, gamma) ==
    Rat(Pow(2, -log_pt) - 1, Pow(2, -log_pt))

FocalTerm(log_pt, gamma) ==
    Rat(Pow(Pow(2, -log_pt) - 1, gamma), Pow(Pow(2, -log_pt), gamma))

\* Lines 112-117: an input of more than two dimensions, x[n][c][d] with
\* targets y[n][d], becomes the rows (n, d) in row-major order.
FlattenX(x3, n_dim, d_dim) ==
    [i \in 1..(n_dim * d_dim) |->
        [c \in Classes |-> x3[((i - 1) \div d_dim) + 1][c][((i - 1) % d_dim) + 1]]]

FlattenY(y2, n_dim, d_dim) ==
    [i \in 1..(n_dim * d_dim) |-> y2[((i - 1) \div d_dim) + 1][((i - 1) % d_dim) + 1]]

\* y[unignored_mask], x[unignored_mask]: the positions kept, in order.
RECURSIVE Unignored(_, _)
Unignored(y, i) ==
    IF i > Len(y) THEN <<>>
    ELSE (IF y[i] # IgnoreIndex THEN <<i>> ELSE <<>>) \o Unignored(y, i + 1)

\* FocalLoss.forward on rows x and targets y (lines 119-146): 0 when every
\* target is ignored; else the per-row focal_term * ce, reduced.  A 'none'
\* result is the sequence of the per-row losses.
FocalForwardRows(alpha, gamma, reduction, x, y) ==
    LET kept == Unignored(y, 1)
        rowloss(i) ==
            LET log_p == LogSoftmax(x[kept[i]])
                t == y[kept[i]]
                ce == NllRow(alpha, log_p, t)
                log_pt == log_p[t]
            IN  RatMul(FocalTerm(log_pt, gamma), ce)
        losses == [i \in 1..Len(kept) |-> rowloss(i)]
    IN  IF Len(kept) = 0 THEN <<0, 1>>
        ELSE IF reduction = "mean" THEN RatOver(RatSum(losses), Len(losses))
        ELSE IF reduction = "sum" THEN RatSum(losses)
        ELSE losses

\* nn.CrossEntropyLoss(weight, reduction, ignore_index=-100) on rows x and
\* class-index targets y: per row -weight[y] * log_softmax(x)[y], 0 on an
\* ignored row; 'sum' adds the rows; 'mean' divides the sum by the summed
\* weights of the targets that are not ignored ("nan" when there are none).
WeightedCrossEntropy(weight, reduction, x, y) ==
    LET rowloss(i) ==
            IF y[i] = IgnoreIndex THEN <<0, 1>>
            ELSE NllRow(weight, LogSoftmax(x[i]), y[i])
        losses == [i \in 1..Len(y) |-> rowloss(i)]
        kept == Unignored(y, 1)
        weights == [i \in 1..Len(kept) |-> Rat(ClassWeight(weight, y[kept[i]]), 1)]
    IN  IF reduction = "none" THEN losses
        ELSE IF reduction = "sum" THEN RatSum(losses)
        ELSE IF Len(kept) = 0 THEN "nan"
        ELSE RatDiv(RatSum(losses), RatSum(weights))

Alphas == {<<>>, <<1, 1, 1>>, <<1, 2, 4>>}

Reductions == {"mean", "sum", "none"}

\* The inputs of a forward call: (N, C) logits with (N,) targets, or
\* (N, C, d1) logits with (N, d1) targets, of at most MaxRows rows in all.
FocalInputs ==
    UNION {[ndim : {2}, n_dim : {n}, d_dim : {1},
            x : [1..n -> LogitRows],
            y : [1..n -> Classes \cup {IgnoreIndex}]] : n \in 0..MaxRows}
    \cup
    UNION {[ndim : {3}, n_dim : {nd[1]}, d_dim : {nd[2]},
            x : {[n \in 1..nd[1] |-> [c \in Classes |-> [d \in 1..nd[2] |-> r[n][d][c]]]] :
                    r \in [1..nd[1] -> [1..nd[2] -> LogitRows]]},
            y : [1..nd[1] -> [1..nd[2] -> Classes \cup {IgnoreIndex}]]] :
           nd \in {p \in (1..MaxRows) \X (1..MaxRows) : p[1] * p[2] <= MaxRows}}

FocalInit ==
    /\ \E alpha \in Alphas, gamma \in 0..MaxGamma, reduction \in Reductions :
         focal = [pc |-> "ready", alpha |-> alpha, gamma |-> gamma,
                  reduction |-> reduction, ignore_index |-> IgnoreIndex,
                  input |-> <<>>, rows |-> <<>>, targets |-> <<>>, out |-> <<>>]
    /\ FocalAlone

\* FocalLoss.forward(x, y), lines 111-146.
FocalForward ==
    /\ focal.pc = "ready"
    /\ \E in \in FocalInputs :
         LET x == IF in.ndim > 2 THEN FlattenX(in.x, in.n_dim, in.d_dim) ELSE in.x
             y == IF in.ndim > 2 THEN FlattenY(in.y, in.n_dim, in.d_dim) ELSE in.y
         IN  focal' = [focal EXCEPT
                          !.pc = "done",
                          !.input = in,
                          !.rows = x,
                          !.targets = y,
                          !.out = FocalForwardRows(focal.alpha, focal.gamma,
                                                   focal.reduction, x, y)]
    /\ FocalFrame

FocalNext == FocalForward

SpecFocal == FocalInit /\ [][FocalNext]_vars

\* The rows and targets of the call as the input tensors hold them, row
\* (n, d) at position (n - 1) * d_dim + d.
FocalInputRow(i) ==
    IF focal.input.ndim = 2 THEN focal.input.x[i]
    ELSE [c \in Classes |->
            focal.input.x[((i - 1) \div focal.input.d_dim) + 1][c]
                         [((i - 1) % focal.input.d_dim) + 1]]

FocalInputTarget(i) ==
    IF focal.input.ndim = 2 THEN focal.input.y[i]
    ELSE focal.input.y[((i - 1) \div focal.input.d_dim) + 1]
                      [((i - 1) % focal.input.d_dim) + 1]

FocalInputRows == [i \in 1..(focal.input.n_dim * focal.input.d_dim) |-> FocalInputRow(i)]

FocalInputTargets ==
    [i \in 1..(focal.input.n_dim * focal.input.d_dim) |-> FocalInputTarget(i)]

\* A finished call with gamma = 0 on at least one row, every target a class.
FocalPlainCase ==
    /\ focal.pc = "done"
    /\ focal.gamma = 0
    /\ Len(FocalInputTargets) >= 1
    /\ \A i \in 1..Len(FocalInputTargets) : FocalInputTargets[i] \in Classes

FocalTargetWeights ==
    RatSum([i \in 1..Len(FocalInputTargets) |->
                Rat(ClassWeight(focal.alpha, FocalInputTargets[i]), 1)])

\* C7 as stated: with gamma = 0, FocalLoss returns what the weighted
\* cross-entropy with the same class weights and the same reduction returns,
\* for every alpha and each of 'mean', 'sum', 'none'.
C7_FocalEqualsCrossEntropy ==
    FocalPlainCase =>
        focal.out = WeightedCrossEntropy(focal.alpha, focal.reduction,
                                         FocalInputRows, FocalInputTargets)

\* C7 as amended: with gamma = 0 and every target a class, FocalLoss returns
\* the weighted cross-entropy of the same reduction for 'sum' and 'none';
\* for 'mean' it returns the weighted cross-entropy 'sum' divided by the
\* number of rows, which is the weighted cross-entropy 'mean' exactly when
\* the class weights of the targets add up to the number of rows.
C7_FocalEqualsUnnormalizedCrossEntropy ==
    FocalPlainCase =>
        /\ focal.reduction \in {"sum", "none"} =>
              focal.out = WeightedCrossEntropy(focal.alpha, focal.reduction,
                                               FocalInputRows, FocalInputTargets)
        /\ focal.reduction = "mean" =>
              /\ focal.out = RatOver(WeightedCrossEntropy(focal.alpha, "sum",
                                                          FocalInputRows, FocalInputTargets),
                                     Len(FocalInputTargets))
              /\ (focal.out = WeightedCrossEntropy(focal.alpha, "mean",
                                                   FocalInputRows, FocalInputTargets))
                    <=> (FocalTargetWeights = <<Len(FocalInputTargets), 1>>)

\* A 'mean' call with gamma = 0 and the weights [1, 2, 4] on two rows of
\* different target classes, where the two losses differ.
C7_Witness ==
    /\ FocalPlainCase
    /\ focal.reduction = "mean"
    /\ focal.alpha = <<1, 2, 4>>
    /\ Len(FocalInputTargets) = 2
    /\ FocalInputTargets[1] # FocalInputTargets[2]
    /\ focal.out # WeightedCrossEntropy(focal.alpha, "mean",
                                        FocalInputRows, FocalInputTargets)

(***************************************************************************)
(* RSNA2024Loss.forward                                                    *)
(*                                                                         *)
(* The tensors of a call are read one [:, cond_idx, level_idx] or          *)
(* [:, level_idx] slice per loop iteration, and each slice is read once:   *)
(* the model chooses a slice when the loop reads it and keeps the targets  *)
(* read so far in targets_read and level_targets_read.  The logits are a   *)
(* fixed function of the position.  Weights are rationals.                 *)
(***************************************************************************)

MaxBatch == 2    \* largest batch size N

ConditionLists ==
    {<<"spinal_canal_stenosis">>,
     <<"spinal_canal_stenosis", "left_neural_foraminal_narrowing">>}

LevelLists == {<<"L1/L2">>, <<"L1/L2", "L2/L3">>}

\* self.ce_loss as __init__ builds it from the ce_loss mapping: the default
\* CrossEntropyLoss(weight=[1.0, 2.0, 4.0]), or a FocalLoss.
CeLossChoices ==
    {[name |-> "CrossEntropyLoss", weight |-> <<1, 2, 4>>, gamma |-> 0, reduction |-> "mean"],
     [name |-> "FocalLoss", weight |-> <<>>, gamma |-> 2, reduction |-> "mean"]}

\* Lines 181-183: [1.0] * len(conditions) for None, or the list given.
ConditionWeightChoices(conditions) ==
    {[i \in 1..Len(conditions) |-> <<1, 1>>],
     [i \in 1..Len(conditions) |-> IF i = 1 THEN <<1, 1>> ELSE <<1, 4>>]}

OverallLossWeights == {<<2, 1>>}

LevelLossWeights == {<<-1, 2>>, <<0, 1>>, <<1, 2>>}

\* self.ce_loss(logit, target)
CeLoss(ce_loss, x, y) ==
    IF ce_loss.name = "CrossEntropyLoss"
    THEN WeightedCrossEntropy(ce_loss.weight, ce_loss.reduction, x, y)
    ELSE FocalForwardRows(ce_loss.weight, ce_loss.gamma, ce_loss.reduction, x, y)

\* self.level_loss(level_logit, level_target): nn.CrossEntropyLoss()
LevelCe(x, y) == WeightedCrossEntropy(<<>>, "mean", x, y)

\* logits[:, cond_idx, level_idx] and level_logits[:, level_idx]
LogitSlice(batch, cond_idx, level_idx) ==
    [n \in 1..batch |->
        [c \in Classes |-> IF c = (n + cond_idx + level_idx) % NumClasses THEN 1 ELSE 0]]

LevelLogitSlice(batch, level_idx) == LogitSlice(batch, 0, level_idx)

\* The values targets[:, cond_idx, level_idx] may hold: one class for the
\* whole batch, or the classes in turn.
TargetSlices(batch) ==
    {[n \in 1..batch |-> 0], [n \in 1..batch |-> n % NumClasses]}

\* The values level_targets[:, level_idx] may hold.
LevelTargetSlices(batch) == [1..batch -> {IgnoreIndex, 1}]

\* Line 198: self.ce_loss(logit, target) * self.condition_weight[cond_idx]
PartialLossByLevel(ce_loss, condition_weight, batch, cond_idx, level_idx, target) ==
    RatMul(CeLoss(ce_loss, LogitSlice(batch, cond_idx, level_idx), target),
           condition_weight[Min(level_idx + 1, Len(condition_weight))])

PartialLoss(ce_loss, condition_weight, batch, cond_idx, level_idx, target) ==
    RatMul(CeLoss(ce_loss, LogitSlice(batch, cond_idx, level_idx), target),
           condition_weight[cond_idx + 1])

\* Line 210: torch.any(level_target != -100)
LevelAllTargets(level_target) ==
    \A n \in 1..Len(level_target) : level_target[n] # IgnoreIndex

LevelHasTarget(level_target) ==
    \E n \in 1..Len(level_target) : level_target[n] # IgnoreIndex

\* torch.mean(torch.stack(values)) of a list that is not empty
MeanOf(values) == RatOver(RatSum(values), Len(values))

NoLosses == [k \in {} |-> <<0, 1>>]

Put(losses, key, value) == [k \in DOMAIN losses \cup {key} |->
                              IF k = key THEN value ELSE losses[k]]

\* The module after construction.
LossInit ==
    /\ \E conditions \in ConditionLists, levels \in LevelLists,
          ce_loss \in CeLossChoices,
          overall_loss_weight \in OverallLossWeights,
          level_loss_weight \in LevelLossWeights :
         \E condition_weight \in ConditionWeightChoices(conditions) :
            loss = [pc |-> "ready",
                    conditions |-> conditions,
                    levels |-> levels,
                    ce_loss |-> ce_loss,
                    condition_weight |-> condition_weight,
                    overall_loss_weight |-> overall_loss_weight,
                    level_loss_weight |-> level_loss_weight,
                    batch |-> 0,
                    level_given |-> FALSE,
                    cond_idx |-> 0,
                    level_idx |-> 0,
                    partial_losses |-> <<>>,
                    overall_loss |-> <<0, 1>>,
                    level_losses |-> <<>>,
                    level_loss |-> <<0, 1>>,
                    losses |-> NoLosses,
                    targets_read |-> <<>>,
                    level_targets_read |-> <<>>,
                    level_inputs_read |-> FALSE]
    /\ LossAlone

\* forward(logits, targets, level_logits, level_targets) is called, lines
\* 185-193; the level inputs are tensors or left at None.
LossCall ==
    /\ loss.pc = "ready"
    /\ \E batch \in 1..MaxBatch, level_given \in BOOLEAN :
         loss' = [loss EXCEPT !.pc = "overall_loop",
                              !.batch = batch,
                              !.level_given = level_given]
    /\ LossFrame

\* One iteration of the loops of lines 194-199.
LossPartial ==
    /\ loss.pc = "overall_loop"
    /\ loss.cond_idx < Len(loss.conditions)
    /\ \E target \in TargetSlices(loss.batch) :
         LET partial_loss == PartialLoss(loss.ce_loss, loss.condition_weight, loss.batch,
                                         loss.cond_idx, loss.level_idx, target)
             last == loss.level_idx + 1 = Len(loss.levels)
         IN  loss' = [loss EXCEPT
                        !.partial_losses = Append(loss.partial_losses, partial_loss),
                        !.targets_read = Append(loss.targets_read, target),
                        !.level_idx = IF last THEN 0 ELSE loss.level_idx + 1,
                        !.cond_idx = IF last THEN loss.cond_idx + 1 ELSE loss.cond_idx]
    /\ LossFrame

\* Lines 201-202: the mean of the stacked partial losses.
LossOverall ==
    /\ loss.pc = "overall_loop"
    /\ loss.cond_idx = Len(loss.conditions)
    /\ LET overall_loss == MeanOf(loss.partial_losses)
       IN  loss' = [loss EXCEPT !.pc = "level_branch",
                                !.overall_loss = overall_loss,
                                !.losses = Put(loss.losses, "overall_loss", overall_loss)]
    /\ LossFrame

\* Line 205-206: level_loss_weight > 0.0, the level loop starts.
LossLevelEnter ==
    /\ loss.pc = "level_branch"
    /\ loss.level_loss_weight[1] > 0
    /\ loss' = [loss EXCEPT !.pc = "level_loop",
                            !.partial_losses = <<>>,
                            !.level_idx = 0,
                            !.level_losses = <<>>]
    /\ LossFrame

\* Lines 216-218: level_loss_weight <= 0.0.
LossLevelSkip ==
    /\ loss.pc = "level_branch"
    /\ ~(loss.level_loss_weight[1] > 0)
    /\ loss' = [loss EXCEPT !.pc = "weighted_sum",
                            !.partial_losses = <<>>,
                            !.level_loss = <<0, 1>>,
                            !.losses = Put(loss.losses, "level_loss", <<0, 1>>)]
    /\ LossFrame

\* One iteration of the loop of lines 207-212; subscripting None raises.
LossLevelIter ==
    /\ loss.pc = "level_loop"
    /\ loss.level_idx < Len(loss.levels)
    /\ IF ~loss.level_given
       THEN loss' = [loss EXCEPT !.pc = "TypeError"]
       ELSE \E level_target \in LevelTargetSlices(loss.batch) :
              LET level_logit == LevelLogitSlice(loss.batch, loss.level_idx)
                  appended == LevelHasTarget(level_target)
                  level_loss == IF appended THEN LevelCe(level_logit, level_target)
                                ELSE loss.level_loss
              IN  loss' = [loss EXCEPT
                             !.level_inputs_read = TRUE,
                             !.level_targets_read = Append(loss.level_targets_read, level_target),
                             !.level_loss = level_loss,
                             !.level_losses = IF appended
                                              THEN Append(loss.level_losses, level_loss)
                                              ELSE loss.level_losses,
                             !.level_idx = loss.level_idx + 1]
    /\ LossFrame

\* Lines 214-215: torch.stack raises on an empty list.
LossLevelReduce ==
    /\ loss.pc = "level_loop"
    /\ loss.level_idx = Len(loss.levels)
    /\ IF loss.level_losses = <<>>
       THEN loss' = [loss EXCEPT !.pc = "RuntimeError"]
       ELSE LET level_loss == MeanOf(loss.level_losses)
            IN  loss' = [loss EXCEPT !.pc = "weighted_sum",
                                     !.level_loss = level_loss,
                                     !.level_losses = <<>>,
                                     !.losses = Put(loss.losses, "level_loss", level_loss)]
    /\ LossFrame

\* Lines 220-225: the weighted sum, and the return of the mapping.
LossReturn ==
    /\ loss.pc = "weighted_sum"
    /\ loss' = [loss EXCEPT
                   !.pc = "returned",
                   !.losses = Put(loss.losses, "loss",
                                  RatAdd(RatMul(loss.overall_loss_weight, loss.overall_loss),
                                         RatMul(loss.level_loss_weight, loss.level_loss)))]
    /\ LossFrame

LossNext ==
    \/ LossCall
    \/ LossPartial
    \/ LossOverall
    \/ LossLevelEnter
    \/ LossLevelSkip
    \/ LossLevelIter
    \/ LossLevelReduce
    \/ LossReturn

SpecLoss == LossInit /\ [][LossNext]_vars

\* The levels read so far that have a row whose target is not -100, and
\* the cross-entropy of each.
RECURSIVE LossLevelsWithTarget(_)
LossLevelsWithTarget(i) ==
    IF i > Len(loss.level_targets_read) THEN <<>>
    ELSE (IF \E n \in 1..loss.batch : loss.level_targets_read[i][n] # IgnoreIndex
          THEN <<i>> ELSE <<>>) \o LossLevelsWithTarget(i + 1)

LossExpectedLevelLosses ==
    LET with == LossLevelsWithTarget(1)
    IN  [j \in 1..Len(with) |->
            LevelCe(LevelLogitSlice(loss.batch, with[j] - 1),
                    loss.level_targets_read[with[j]])]

LossAllLevelTargetsIgnored ==
    \A i \in 1..Len(loss.level_targets_read) :
        \A n \in 1..loss.batch : loss.level_targets_read[i][n] = IgnoreIndex

\* C8: with level_loss_weight > 0 and every level target of the batch
\* equal to -100, forward stops with the error of reducing an empty list
\* and returns no mapping; when some level has a row whose target is not
\* -100 the reduction does not fail, and the level loss is the mean over
\* exactly the levels that have such a row.
C8_EmptyLevelListRaises ==
    /\ loss.pc = "RuntimeError" =>
          /\ loss.level_loss_weight[1] > 0
          /\ Len(loss.level_targets_read) = Len(loss.levels)
          /\ LossAllLevelTargetsIgnored
          /\ "loss" \notin DOMAIN loss.losses
          /\ "level_loss" \notin DOMAIN loss.losses
    /\ (loss.pc \in {"weighted_sum", "returned"} /\ loss.level_loss_weight[1] > 0) =>
          /\ Len(loss.level_targets_read) = Len(loss.levels)
          /\ ~LossAllLevelTargetsIgnored
          /\ loss.losses["level_loss"] = MeanOf(LossExpectedLevelLosses)
    /\ (loss.pc = "level_loop" /\ loss.level_given) =>
          loss.level_losses = LossExpectedLevelLosses

\* The reduction has failed on a batch of two rows and two levels, every
\* level target -100.
C8_Witness ==
    /\ loss.pc = "RuntimeError"
    /\ loss.batch = 2
    /\ Len(loss.levels) = 2
    /\ loss.level_targets_read = <<<<IgnoreIndex, IgnoreIndex>>, <<IgnoreIndex, IgnoreIndex>>>>

\* The per-(condition, level) losses of the targets read, in loop order,
\* each multiplied by the weight of its condition.
LossExpectedPartialLosses ==
    [k \in 1..Len(loss.targets_read) |->
        LET cond_idx == (k - 1) \div Len(loss.levels)
            level_idx == (k - 1) % Len(loss.levels)
        IN  RatMul(CeLoss(loss.ce_loss, LogitSlice(loss.batch, cond_idx, level_idx),
                          loss.targets_read[k]),
                   loss.condition_weight[cond_idx + 1])]

\* C9: a forward call that returns, returns a mapping with exactly the
\* keys overall_loss, level_loss and loss, where loss = overall_loss_weight
\* x overall_loss + level_loss_weight x level_loss, overall_loss is the
\* plain mean of the len(conditions) x len(levels) per-(condition, level)
\* losses, each multiplied by its condition's weight, and level_loss is 0,
\* with the level inputs never read, when level_loss_weight is not positive.
C9_LossMapping ==
    /\ loss.pc = "level_branch" => loss.partial_losses = LossExpectedPartialLosses
    /\ loss.pc = "returned" =>
          /\ DOMAIN loss.losses = {"overall_loss", "level_loss", "loss"}
          /\ Len(loss.targets_read) = Len(loss.conditions) * Len(loss.levels)
          /\ loss.losses["overall_loss"] =
                RatOver(RatSum(LossExpectedPartialLosses),
                        Len(loss.conditions) * Len(loss.levels))
          /\ loss.losses["loss"] =
                RatAdd(RatMul(loss.overall_loss_weight, loss.losses["overall_loss"]),
                       RatMul(loss.level_loss_weight, loss.losses["level_loss"]))
          /\ ~(loss.level_loss_weight[1] > 0) =>
                /\ loss.losses["level_loss"] = <<0, 1>>
                /\ ~loss.level_inputs_read
                /\ loss.level_targets_read = <<>>

\* A call with two conditions of different weights, two levels, a negative
\* level_loss_weight and no level inputs has returned its mapping.
C9_Witness ==
    /\ loss.pc = "returned"
    /\ Len(loss.conditions) = 2 /\ Len(loss.levels) = 2
    /\ loss.condition_weight[2] = <<1, 4>>
    /\ loss.level_loss_weight[1] < 0
    /\ ~loss.level_given
    /\ loss.losses["level_loss"] = <<0, 1>>
    /\ loss.losses["loss"] # loss.losses["overall_loss"]

(***************************************************************************)
(* RSNA2024Loss.__init__ and the ce_loss mapping it is given               *)
(*                                                                         *)
(* A mapping is a function from its keys to values; a value is a record    *)
(* that carries its type, so that a list and the tensor made from it       *)
(* differ.  The default of the ce_loss parameter is one mapping, made when *)
(* the function is defined and handed to every call that leaves the        *)
(* argument out; a caller's mapping is passed by reference.                *)
(***************************************************************************)

MaxConstructions == 3    \* most constructions in a row

Str(s) == [type |-> "str", str |-> s, nums |-> <<>>]

List(v) == [type |-> "list", str |-> "", nums |-> v]

Float(x) == [type |-> "float", str |-> "", nums |-> <<x>>]

\* torch.tensor(weight)
Tensor(value) == [type |-> "tensor", str |-> "", nums |-> value.nums]

\* Line 155: dict(name='CrossEntropyLoss', weight=[1.0, 2.0, 4.0])
DefaultCeLoss ==
    [k \in {"name", "weight"} |->
        IF k = "name" THEN Str("CrossEntropyLoss") ELSE List(<<1, 2, 4>>)]

\* The mappings a caller holds and passes as ce_loss.
CallerConfigs ==
    [id \in {"ce", "ce_plain", "focal", "unsupported"} |->
        CASE id = "ce" ->
                [k \in {"name", "weight"} |->
                    IF k = "name" THEN Str("CrossEntropyLoss") ELSE List(<<1, 2, 4>>)]
          [] id = "ce_plain" ->
                [k \in {"name"} |-> Str("CrossEntropyLoss")]
          [] id = "focal" ->
                [k \in {"name", "alpha", "gamma"} |->
                    IF k = "name" THEN Str("FocalLoss")
                    ELSE IF k = "alpha" THEN List(<<1, 2, 4>>) ELSE Float(2)]
          [] id = "unsupported" ->
                [k \in {"name"} |-> Str("BCELoss")]]

\* dict.pop(key): the mapping that is left.
DictPop(dict, key) == [k \in DOMAIN dict \ {key} |-> dict[k]]

\* A call made with no keyword arguments.
NoKwargs == [k \in {} |-> Str("")]

\* Lines 167-179 on the mapping ce_loss: how the construction ends, the loss
\* kind and the keyword arguments self.ce_loss is made with, and the
\* mapping as the construction leaves it.
InitCeLoss(ce_loss) ==
    IF "name" \notin DOMAIN ce_loss
    THEN [result |-> "KeyError", kind |-> "", kwargs |-> NoKwargs, ce_loss |-> ce_loss]
    ELSE LET ce_loss_name == ce_loss["name"].str
             popped == DictPop(ce_loss, "name")
             key == IF ce_loss_name = "CrossEntropyLoss" THEN "weight" ELSE "alpha"
             kwargs == IF key \in DOMAIN popped
                       THEN Put(DictPop(popped, key), key, Tensor(popped[key]))
                       ELSE popped
         IN  IF ce_loss_name \in {"CrossEntropyLoss", "FocalLoss"}
             THEN [result |-> "constructed", kind |-> ce_loss_name, kwargs |-> kwargs,
                   ce_loss |-> kwargs]
             ELSE [result |-> "ValueError", kind |-> "", kwargs |-> NoKwargs,
                   ce_loss |-> popped]

\* What a construction shows its caller.
Outcome(init) == [result |-> init.result, kind |-> init.kind, kwargs |-> init.kwargs]

\* The module is imported: the default mapping exists, the callers'
\* mappings are as written, nothing has been constructed.
CtorInit ==
    /\ ctor = [pc |-> "ready",
               default |-> DefaultCeLoss,
               configs |-> CallerConfigs,
               history |-> <<>>]
    /\ CtorAlone

\* RSNA2024Loss() with ce_loss left out: the default mapping is the argument.
CtorConstructDefault ==
    /\ ctor.pc = "ready"
    /\ Len(ctor.history) < MaxConstructions
    /\ LET init == InitCeLoss(ctor.default)
       IN  ctor' = [ctor EXCEPT
                      !.default = init.ce_loss,
                      !.history = Append(ctor.history,
                                         [arg |-> "default", outcome |-> Outcome(init)])]
    /\ CtorFrame

\* RSNA2024Loss(ce_loss=config) with one of the caller's mappings.
CtorConstructWith ==
    /\ ctor.pc = "ready"
    /\ Len(ctor.history) < MaxConstructions
    /\ \E id \in DOMAIN ctor.configs :
         LET init == InitCeLoss(ctor.configs[id])
         IN  ctor' = [ctor EXCEPT
                        !.configs[id] = init.ce_loss,
                        !.history = Append(ctor.history,
                                           [arg |-> id, outcome |-> Outcome(init)])]
    /\ CtorFrame

CtorNext ==
    \/ CtorConstructDefault
    \/ CtorConstructWith

SpecConstruct == CtorInit /\ [][CtorNext]_vars

\* C11: a construction leaves the ce_loss mapping it is given, the shared
\* default included, unchanged, and in any sequence of constructions each
\* construction from a configuration ends as the first one from that
\* configuration did: the same loss kind with the same parameters, or the
\* same rejection.
C11_ConstructionKeepsConfig ==
    /\ ctor.default = DefaultCeLoss
    /\ ctor.configs = CallerConfigs
    /\ \A i, j \in 1..Len(ctor.history) :
          ctor.history[i].arg = ctor.history[j].arg
             => ctor.history[i].outcome = ctor.history[j].outcome

====
